---- MODULE Spec2Model ----
(***************************************************************************)
(* Model of the c-token prototype's instruction codec (instruction.rs)    *)
(* and state layout (state.rs).  Both are pure functions over byte        *)
(* buffers; the state machine draws an input in Init and applies one      *)
(* operation (or a pack/unpack pair) to it.                                *)
(***************************************************************************)
EXTENDS Integers, Sequences, FiniteSets, TLC

VARIABLES call, arg, packed, ret

vars == <<call, arg, packed, ret>>

----------------------------------------------------------------------------
(* Bounds of the model *)

\* longest run of bytes appended after a complete payload
MaxExtra == 2
\* longest stored-record buffer handed to unpack_from_slice
MaxBufLen == 66
\* byte length of the opaque proof payloads of crate::proof
MintDataLen == 2
TransferDataLen == 3

----------------------------------------------------------------------------
(* Program constants *)

PUBKEY_LEN == 32
Mint_LEN == 41
Account_LEN == 65
COMM_LEN == 32
U64_LEN == 8

----------------------------------------------------------------------------
(* Values *)

Byte == 0..255
ByteSamples == {0, 1, 255}

\* sequences over S of length exactly n / at most n
RECURSIVE SeqsOfLen(_, _)
SeqsOfLen(S, n) ==
    IF n = 0 THEN {<<>>}
    ELSE {<<b>> \o s : b \in S, s \in SeqsOfLen(S, n - 1)}

SeqsUpTo(S, n) == UNION {SeqsOfLen(S, k) : k \in 0..n}

Fill(n, b) == [i \in 1..n |-> b]

Take(s, n) == SubSeq(s, 1, n)
Drop(s, n) == SubSeq(s, n + 1, Len(s))

\* Result<T, E>, and the outcome of a panicking call
Ok(v) == [tag |-> "Ok", val |-> v, err |-> "none"]
Err(e) == [tag |-> "Err", val |-> <<>>, err |-> e]
Panic(m) == [tag |-> "Panic", val |-> <<>>, err |-> m]
NoResult == [tag |-> "None", val |-> <<>>, err |-> "none"]

\* the outcome of a borsh deserialize(buf: &mut &[u8]): the value and what
\* is left of the buffer
OkRest(v, r) == [tag |-> "Ok", val |-> v, rest |-> r, err |-> "none"]
ErrRest(e) == [tag |-> "Err", val |-> <<>>, rest |-> <<>>, err |-> e]

\* Pubkey: 32 bytes
ZeroKey == Fill(PUBKEY_LEN, 0)
OnesKey == Fill(PUBKEY_LEN, 255)
IncKey == [i \in 1..PUBKEY_LEN |-> i]
FlagKey == [i \in 1..PUBKEY_LEN |-> IF i = 1 THEN 1 ELSE 0]
Keys == {ZeroKey, OnesKey, IncKey, FlagKey}

\* Pubkey::new(&[u8]): copies a slice of exactly 32 bytes
Pubkey_new(bytes) ==
    IF Len(bytes) = PUBKEY_LEN THEN [i \in 1..PUBKEY_LEN |-> bytes[i]]
    ELSE Panic("Slice must be the same length as a Pubkey")

\* sysvar::rent::id()
sysvar_rent_id ==
    <<6, 167, 213, 23, 25, 44, 92, 81, 33, 140, 201, 76, 61, 74, 241, 127,
      88, 218, 238, 8, 155, 161, 253, 68, 227, 219, 217, 138, 0, 0, 0, 0>>

\* u64 as four 16-bit limbs, most significant first
U64Zero == <<0, 0, 0, 0>>
U64Max == <<65535, 65535, 65535, 65535>>
U64Samples == {U64Zero, U64Max, <<0, 0, 0, 1>>, <<0, 0, 1, 258>>}

----------------------------------------------------------------------------
(* borsh primitives *)

\* u64: eight bytes, little endian
u64_serialize(v) ==
    [i \in 1..U64_LEN |->
        LET limb == v[4 - ((i - 1) \div 2)]
        IN  IF i % 2 = 1 THEN limb % 256 ELSE limb \div 256]

u64_deserialize(buf) ==
    IF Len(buf) < U64_LEN THEN ErrRest("UnexpectedLength")
    ELSE OkRest([k \in 1..4 |-> buf[2 * (4 - k) + 1] + 256 * buf[2 * (4 - k) + 2]],
                Drop(buf, U64_LEN))

\* bool: one byte, 0 or 1
bool_serialize(b) == IF b THEN <<1>> ELSE <<0>>

bool_deserialize(buf) ==
    IF Len(buf) = 0 THEN ErrRest("UnexpectedLength")
    ELSE IF buf[1] = 0 THEN OkRest(FALSE, Drop(buf, 1))
    ELSE IF buf[1] = 1 THEN OkRest(TRUE, Drop(buf, 1))
    ELSE ErrRest("InvalidBool")

\* PedersenComm (crate::proof): a 32-byte value
PedersenComm_serialize(c) == c

PedersenComm_deserialize(buf) ==
    IF Len(buf) < COMM_LEN THEN ErrRest("UnexpectedLength")
    ELSE OkRest(Take(buf, COMM_LEN), Drop(buf, COMM_LEN))

\* MintData / TransferData (crate::proof): opaque byte arrays
MintData_try_to_vec(d) == d
TransferData_try_to_vec(d) == d

MintData_try_from_slice(v) ==
    IF Len(v) < MintDataLen THEN Err("UnexpectedLength")
    ELSE IF Len(v) > MintDataLen THEN Err("NotAllBytesRead")
    ELSE Ok(v)

TransferData_try_from_slice(v) ==
    IF Len(v) < TransferDataLen THEN Err("UnexpectedLength")
    ELSE IF Len(v) > TransferDataLen THEN Err("NotAllBytesRead")
    ELSE Ok(v)

----------------------------------------------------------------------------
(* instruction.rs *)

InitializeMint(k) == [variant |-> "InitializeMint", payload |-> k]
MintIx(d) == [variant |-> "Mint", payload |-> d]
TransferIx(d) == [variant |-> "Transfer", payload |-> d]
CloseAccount == [variant |-> "CloseAccount", payload |-> <<>>]

\* io::Error -> ProgramError, as the ? operator converts it
BorshIoError == "BorshIoError"

\* unpack_pubkey with the length test off by one: split_at(32) then panics
\* on a 31-byte input
unpack_pubkey_off_by_one(input) ==
    IF Len(input) >= 31
    THEN IF Len(input) < 32
         THEN [tag |-> "Panic", val |-> <<>>, rest |-> <<>>, err |-> "mid > len"]
         ELSE OkRest(Pubkey_new(Take(input, 32)), Drop(input, 32))
    ELSE ErrRest("InvalidInstruction")

\* unpack_pubkey that takes nothing but exactly 32 bytes
unpack_pubkey_strict(input) ==
    IF Len(input) = 32
    THEN OkRest(Pubkey_new(Take(input, 32)), Drop(input, 32))
    ELSE ErrRest("InvalidInstruction")

unpack_pubkey(input) ==
    IF Len(input) >= 32
    THEN OkRest(Pubkey_new(Take(input, 32)), Drop(input, 32))
    ELSE ErrRest("InvalidInstruction")

\* unpack whose catch-all arm yields CloseAccount instead of an error
unpack_default_close(input) ==
    IF Len(input) = 0 THEN Err("InvalidInstruction")
    ELSE LET tag == Head(input)
             rest == Tail(input)
         IN  CASE tag = 0 ->
                    LET r == unpack_pubkey(rest)
                    IN  IF r.tag = "Ok" THEN Ok(InitializeMint(r.val))
                        ELSE [tag |-> r.tag, val |-> <<>>, err |-> r.err]
               [] tag = 1 ->
                    LET r == MintData_try_from_slice(rest)
                    IN  IF r.tag = "Ok" THEN Ok(MintIx(r.val))
                        ELSE Err(BorshIoError)
               [] tag = 2 ->
                    LET r == TransferData_try_from_slice(rest)
                    IN  IF r.tag = "Ok" THEN Ok(TransferIx(r.val))
                        ELSE Err(BorshIoError)
               [] OTHER -> Ok(CloseAccount)

unpack(input) ==
    IF Len(input) = 0 THEN Err("InvalidInstruction")
    ELSE LET tag == Head(input)
             rest == Tail(input)
         IN  CASE tag = 0 ->
                    LET r == unpack_pubkey(rest)
                    IN  IF r.tag = "Ok" THEN Ok(InitializeMint(r.val))
                        ELSE [tag |-> r.tag, val |-> <<>>, err |-> r.err]
               [] tag = 1 ->
                    LET r == MintData_try_from_slice(rest)
                    IN  IF r.tag = "Ok" THEN Ok(MintIx(r.val))
                        ELSE Err(BorshIoError)
               [] tag = 2 ->
                    LET r == TransferData_try_from_slice(rest)
                    IN  IF r.tag = "Ok" THEN Ok(TransferIx(r.val))
                        ELSE Err(BorshIoError)
               [] OTHER -> Err("InvalidInstruction")

pack(ix) ==
    CASE ix.variant = "InitializeMint" -> <<0>> \o ix.payload
      [] ix.variant = "Mint" -> <<1>> \o MintData_try_to_vec(ix.payload)
      [] ix.variant = "Transfer" -> <<2>> \o TransferData_try_to_vec(ix.payload)
      [] OTHER -> <<>>

\* AccountMeta::new / AccountMeta::new_readonly
AccountMeta_new(pubkey, is_signer) ==
    [pubkey |-> pubkey, is_signer |-> is_signer, is_writable |-> TRUE]
AccountMeta_new_readonly(pubkey, is_signer) ==
    [pubkey |-> pubkey, is_signer |-> is_signer, is_writable |-> FALSE]

initialize_mint(c_token_program_id, mint_pubkey, mint_authority_pubkey) ==
    LET data == pack(InitializeMint(mint_authority_pubkey))
        accounts == <<AccountMeta_new(mint_pubkey, FALSE),
                      AccountMeta_new_readonly(sysvar_rent_id, FALSE)>>
    IN  Ok([program_id |-> c_token_program_id, accounts |-> accounts, data |-> data])

\* mint whose third reference is not marked as a signer
mint_unsigned(c_token_program_id, mint_pubkey, account_pubkey, signer_pubkey, mint_data) ==
    LET data == pack(MintIx(mint_data))
        accounts == <<AccountMeta_new(mint_pubkey, FALSE),
                      AccountMeta_new(account_pubkey, FALSE),
                      AccountMeta_new_readonly(signer_pubkey, FALSE)>>
    IN  Ok([program_id |-> c_token_program_id, accounts |-> accounts, data |-> data])

mint(c_token_program_id, mint_pubkey, account_pubkey, signer_pubkey, mint_data) ==
    LET data == pack(MintIx(mint_data))
        accounts == <<AccountMeta_new(mint_pubkey, FALSE),
                      AccountMeta_new(account_pubkey, FALSE),
                      AccountMeta_new_readonly(signer_pubkey, TRUE)>>
    IN  Ok([program_id |-> c_token_program_id, accounts |-> accounts, data |-> data])

transfer(c_token_program_id, source_pubkey, destination_pubkey, transfer_data) ==
    LET data == pack(TransferIx(transfer_data))
        accounts == <<AccountMeta_new(source_pubkey, FALSE),
                      AccountMeta_new(destination_pubkey, FALSE)>>
    IN  Ok([program_id |-> c_token_program_id, accounts |-> accounts, data |-> data])

----------------------------------------------------------------------------
(* state.rs *)

BorshPubkey_serialize(k) == <<>>

\* checks the whole remaining buffer and leaves it where it was
BorshPubkey_deserialize(buf) ==
    IF Len(buf) = 32 THEN OkRest(Pubkey_new(buf), buf)
    ELSE ErrRest("Bytes does not match Pubkey size")

\* #[derive(BorshSerialize)]: the fields in declaration order
Mint_try_to_vec(m) ==
    BorshPubkey_serialize(m.mint_authority)
        \o u64_serialize(m.supply)
        \o bool_serialize(m.is_initialized)

Account_try_to_vec(a) ==
    BorshPubkey_serialize(a.mint)
        \o bool_serialize(a.is_initialized)
        \o PedersenComm_serialize(a.comm)

\* #[derive(BorshDeserialize)]: the fields in declaration order, each from
\* what the one before left
Mint_deserialize(buf) ==
    LET k == BorshPubkey_deserialize(buf)
    IN  IF k.tag # "Ok" THEN ErrRest(k.err)
        ELSE LET s == u64_deserialize(k.rest)
             IN  IF s.tag # "Ok" THEN ErrRest(s.err)
                 ELSE LET f == bool_deserialize(s.rest)
                      IN  IF f.tag # "Ok" THEN ErrRest(f.err)
                          ELSE OkRest([mint_authority |-> k.val,
                                       supply |-> s.val,
                                       is_initialized |-> f.val], f.rest)

Account_deserialize(buf) ==
    LET k == BorshPubkey_deserialize(buf)
    IN  IF k.tag # "Ok" THEN ErrRest(k.err)
        ELSE LET f == bool_deserialize(k.rest)
             IN  IF f.tag # "Ok" THEN ErrRest(f.err)
                 ELSE LET c == PedersenComm_deserialize(f.rest)
                      IN  IF c.tag # "Ok" THEN ErrRest(c.err)
                          ELSE OkRest([mint |-> k.val,
                                       is_initialized |-> f.val,
                                       comm |-> c.val], c.rest)

\* BorshDeserialize::try_from_slice: deserialize, then nothing may be left
Mint_try_from_slice(v) ==
    LET r == Mint_deserialize(v)
    IN  IF r.tag # "Ok" THEN Err(r.err)
        ELSE IF Len(r.rest) # 0 THEN Err("NotAllBytesRead")
        ELSE Ok(r.val)

Account_try_from_slice(v) ==
    LET r == Account_deserialize(v)
    IN  IF r.tag # "Ok" THEN Err(r.err)
        ELSE IF Len(r.rest) # 0 THEN Err("NotAllBytesRead")
        ELSE Ok(r.val)

\* unpack_from_slice that hands the decoder's own error on
Mint_unpack_from_slice_propagate(src) == Mint_try_from_slice(src)

Mint_unpack_from_slice(src) ==
    LET r == Mint_try_from_slice(src)
    IN  IF r.tag = "Ok" THEN Ok(r.val) ELSE Err("InvalidAccountData")

Account_unpack_from_slice(src) ==
    LET r == Account_try_from_slice(src)
    IN  IF r.tag = "Ok" THEN Ok(r.val) ELSE Err("InvalidAccountData")

\* dst.copy_from_slice(v) panics unless the two lengths are equal
copy_from_slice(dst, v) ==
    IF Len(dst) # Len(v)
    THEN Panic("source slice length does not match destination slice length")
    ELSE Ok(v)

Mint_pack_into_slice(m, dst) == copy_from_slice(dst, Mint_try_to_vec(m))

Account_pack_into_slice(a, dst) == copy_from_slice(dst, Account_try_to_vec(a))

----------------------------------------------------------------------------
(* Inputs *)

Extras == SeqsUpTo(ByteSamples, MaxExtra)

MintDatas == SeqsOfLen(ByteSamples, MintDataLen)
TransferDatas == SeqsOfLen(ByteSamples, TransferDataLen)

Instructions ==
    {InitializeMint(k) : k \in Keys}
        \cup {MintIx(d) : d \in MintDatas}
        \cup {TransferIx(d) : d \in TransferDatas}
        \cup {CloseAccount}

\* instruction buffers: empty, every tag with a short tail, tag 0 with every
\* prefix of a key and with a key and excess bytes, tags 1 and 2 with
\* payloads around the payload length
IxBuffers ==
    {<<>>}
        \cup {<<t>> \o e : t \in Byte, e \in Extras \cup Keys}
        \cup {<<0>> \o Take(k, n) : k \in Keys, n \in 0..PUBKEY_LEN}
        \cup {<<0>> \o k \o e : k \in Keys, e \in Extras}
        \cup {<<1>> \o d : d \in SeqsUpTo(ByteSamples, MintDataLen + 1)}
        \cup {<<2>> \o d : d \in SeqsUpTo(ByteSamples, TransferDataLen + 1)}

Mints ==
    [mint_authority : Keys, supply : U64Samples, is_initialized : BOOLEAN]

Accounts ==
    [mint : Keys, is_initialized : BOOLEAN, comm : Keys]

\* the layouts the records are documented to have
MintLayout(m) ==
    m.mint_authority \o u64_serialize(m.supply) \o bool_serialize(m.is_initialized)

AccountLayout(a) ==
    a.mint \o bool_serialize(a.is_initialized) \o a.comm

\* stored-record buffers: every length up to MaxBufLen filled with one byte,
\* the documented layouts of the sample records, and trailing bytes on them
StateBuffers ==
    {Fill(n, b) : n \in 0..MaxBufLen, b \in ByteSamples}
        \cup Keys
        \cup {MintLayout(m) \o e : m \in Mints, e \in {<<>>, <<0>>}}
        \cup {AccountLayout(a) \o e : a \in Accounts, e \in {<<>>, <<0>>}}
        \cup {Fill(Mint_LEN - 1, 0) \o <<b>> : b \in Byte}
        \cup {Fill(PUBKEY_LEN, 0) \o <<b>> \o Fill(COMM_LEN, 0) : b \in Byte}

KeyBuffers ==
    {Take(k, n) : k \in Keys, n \in 0..PUBKEY_LEN}
        \cup {k \o e : k \in Keys, e \in Extras}

----------------------------------------------------------------------------
(* The state machine: an input is drawn, then one operation is applied *)

Init ==
    /\ call = "idle"
    /\ packed = <<>>
    /\ ret = NoResult
    /\ \/ arg \in {[kind |-> "ix_bytes", bytes |-> b] : b \in IxBuffers}
       \/ arg \in {[kind |-> "ix", ix |-> i] : i \in Instructions}
       \/ arg \in {[kind |-> "initialize_mint", c_token_program_id |-> p,
                    mint_pubkey |-> m, mint_authority_pubkey |-> a]
                        : p \in Keys, m \in Keys, a \in Keys}
       \/ arg \in {[kind |-> "mint", c_token_program_id |-> p, mint_pubkey |-> m,
                    account_pubkey |-> a, signer_pubkey |-> s, mint_data |-> d]
                        : p \in Keys, m \in Keys, a \in Keys, s \in Keys,
                          d \in MintDatas}
       \/ arg \in {[kind |-> "transfer", c_token_program_id |-> p,
                    source_pubkey |-> s, destination_pubkey |-> t,
                    transfer_data |-> d]
                        : p \in Keys, s \in Keys, t \in Keys, d \in TransferDatas}
       \/ arg \in {[kind |-> "state_bytes", bytes |-> b] : b \in StateBuffers}
       \/ arg \in {[kind |-> "mint_rec", rec |-> m, dst |-> Fill(n, 0)]
                        : m \in Mints, n \in 0..MaxBufLen}
       \/ arg \in {[kind |-> "account_rec", rec |-> a, dst |-> Fill(n, 0)]
                        : a \in Accounts, n \in 0..MaxBufLen}
       \/ arg \in {[kind |-> "key", key |-> k] : k \in Keys}
       \/ arg \in {[kind |-> "key_bytes", bytes |-> b] : b \in KeyBuffers}

Unpack ==
    /\ call = "idle" /\ arg.kind = "ix_bytes"
    /\ ret' = unpack(arg.bytes)
    /\ call' = "unpack"
    /\ UNCHANGED <<arg, packed>>

Pack ==
    /\ call = "idle" /\ arg.kind = "ix"
    /\ packed' = pack(arg.ix)
    /\ call' = "pack"
    /\ UNCHANGED <<arg, ret>>

UnpackPacked ==
    /\ call = "pack"
    /\ ret' = unpack(packed)
    /\ call' = "pack_unpack"
    /\ UNCHANGED <<arg, packed>>

BuildInitializeMint ==
    /\ call = "idle" /\ arg.kind = "initialize_mint"
    /\ ret' = initialize_mint(arg.c_token_program_id, arg.mint_pubkey,
                              arg.mint_authority_pubkey)
    /\ call' = "initialize_mint"
    /\ UNCHANGED <<arg, packed>>

BuildMint ==
    /\ call = "idle" /\ arg.kind = "mint"
    /\ ret' = mint(arg.c_token_program_id, arg.mint_pubkey, arg.account_pubkey,
                   arg.signer_pubkey, arg.mint_data)
    /\ call' = "mint"
    /\ UNCHANGED <<arg, packed>>

BuildTransfer ==
    /\ call = "idle" /\ arg.kind = "transfer"
    /\ ret' = transfer(arg.c_token_program_id, arg.source_pubkey,
                       arg.destination_pubkey, arg.transfer_data)
    /\ call' = "transfer"
    /\ UNCHANGED <<arg, packed>>

MintUnpackFromSlice ==
    /\ call = "idle" /\ arg.kind = "state_bytes"
    /\ ret' = Mint_unpack_from_slice(arg.bytes)
    /\ call' = "Mint::unpack_from_slice"
    /\ UNCHANGED <<arg, packed>>

AccountUnpackFromSlice ==
    /\ call = "idle" /\ arg.kind = "state_bytes"
    /\ ret' = Account_unpack_from_slice(arg.bytes)
    /\ call' = "Account::unpack_from_slice"
    /\ UNCHANGED <<arg, packed>>

MintPackIntoSlice ==
    /\ call = "idle" /\ arg.kind = "mint_rec"
    /\ packed' = Mint_try_to_vec(arg.rec)
    /\ ret' = Mint_pack_into_slice(arg.rec, arg.dst)
    /\ call' = "Mint::pack_into_slice"
    /\ UNCHANGED arg

AccountPackIntoSlice ==
    /\ call = "idle" /\ arg.kind = "account_rec"
    /\ packed' = Account_try_to_vec(arg.rec)
    /\ ret' = Account_pack_into_slice(arg.rec, arg.dst)
    /\ call' = "Account::pack_into_slice"
    /\ UNCHANGED arg

KeySerialize ==
    /\ call = "idle" /\ arg.kind = "key"
    /\ packed' = BorshPubkey_serialize(arg.key)
    /\ call' = "BorshPubkey::serialize"
    /\ UNCHANGED <<arg, ret>>

KeyDeserializeSerialized ==
    /\ call = "BorshPubkey::serialize"
    /\ ret' = BorshPubkey_deserialize(packed)
    /\ call' = "BorshPubkey::serialize_deserialize"
    /\ UNCHANGED <<arg, packed>>

KeyDeserialize ==
    /\ call = "idle" /\ arg.kind = "key_bytes"
    /\ ret' = BorshPubkey_deserialize(arg.bytes)
    /\ call' = "BorshPubkey::deserialize"
    /\ UNCHANGED <<arg, packed>>

Next ==
    \/ Unpack
    \/ Pack
    \/ UnpackPacked
    \/ BuildInitializeMint
    \/ BuildMint
    \/ BuildTransfer
    \/ MintUnpackFromSlice
    \/ AccountUnpackFromSlice
    \/ MintPackIntoSlice
    \/ AccountPackIntoSlice
    \/ KeySerialize
    \/ KeyDeserializeSerialized
    \/ KeyDeserialize

Spec == Init /\ [][Next]_vars

----------------------------------------------------------------------------
(* The account lists documented on the CTokenInstruction variants *)

DocAccounts(variant) ==
    CASE variant = "InitializeMint" ->
            <<[role |-> "mint", is_writable |-> TRUE, is_signer |-> FALSE],
              [role |-> "rent", is_writable |-> FALSE, is_signer |-> FALSE]>>
      [] variant = "Mint" ->
            <<[role |-> "mint", is_writable |-> TRUE, is_signer |-> FALSE],
              [role |-> "account", is_writable |-> TRUE, is_signer |-> FALSE],
              [role |-> "authority", is_writable |-> FALSE, is_signer |-> TRUE],
              [role |-> "rent", is_writable |-> FALSE, is_signer |-> FALSE]>>
      [] variant = "Transfer" ->
            <<[role |-> "source", is_writable |-> TRUE, is_signer |-> FALSE],
              [role |-> "destination", is_writable |-> TRUE, is_signer |-> FALSE],
              [role |-> "rent", is_writable |-> FALSE, is_signer |-> FALSE]>>
      [] OTHER ->
            <<[role |-> "source", is_writable |-> TRUE, is_signer |-> FALSE],
              [role |-> "destination", is_writable |-> TRUE, is_signer |-> FALSE]>>

\* the builder argument that plays a documented role
RoleKey(a, role) ==
    CASE role = "mint" -> a.mint_pubkey
      [] role = "account" -> a.account_pubkey
      [] role = "authority" -> a.signer_pubkey
      [] role = "source" -> a.source_pubkey
      [] role = "destination" -> a.destination_pubkey
      [] OTHER -> sysvar_rent_id

\* the variant a builder packs
BuilderVariant(c) ==
    CASE c = "initialize_mint" -> "InitializeMint"
      [] c = "mint" -> "Mint"
      [] OTHER -> "Transfer"

\* the tags pack gives the variants unpack has an arm for, and CloseAccount
CloseAccountTags ==
    IF Len(pack(CloseAccount)) > 0 THEN {pack(CloseAccount)[1]} ELSE {}

KnownTags == {0, 1, 2} \cup CloseAccountTags

\* the u64 stored little endian in eight bytes
U64At(bytes, from) ==
    [k \in 1..4 |-> bytes[from + 2 * (4 - k)] + 256 * bytes[from + 2 * (4 - k) + 1]]

----------------------------------------------------------------------------
(* Properties *)

\* C1: unpack(pack(op)) succeeds and returns op, for every operation of each
\* of the four variants.
C1_RoundTrip ==
    call = "pack_unpack" => (ret.tag = "Ok" /\ ret.val = arg.ix)

\* C2: the serialized Mint is exactly 41 bytes and the serialized Account
\* exactly 65, so pack_into_slice into a LEN-byte destination completes and
\* writes all LEN bytes.
C2_FixedLength ==
    /\ call = "Mint::pack_into_slice" =>
          /\ Len(packed) = Mint_LEN
          /\ Len(arg.dst) = Mint_LEN => (ret.tag = "Ok" /\ Len(ret.val) = Mint_LEN)
    /\ call = "Account::pack_into_slice" =>
          /\ Len(packed) = Account_LEN
          /\ Len(arg.dst) = Account_LEN =>
                (ret.tag = "Ok" /\ Len(ret.val) = Account_LEN)

\* C3: a buffer of exactly canonical length whose flag byte is 0 or 1 decodes
\* to the record whose fields are the bytes at the documented offsets.
C3_DecodeAtOffsets ==
    /\ (/\ call = "Account::unpack_from_slice"
        /\ Len(arg.bytes) = Account_LEN
        /\ arg.bytes[33] \in {0, 1}) =>
          /\ ret.tag = "Ok"
          /\ ret.val.mint = SubSeq(arg.bytes, 1, 32)
          /\ ret.val.is_initialized = (arg.bytes[33] = 1)
          /\ ret.val.comm = SubSeq(arg.bytes, 34, 65)
    /\ (/\ call = "Mint::unpack_from_slice"
        /\ Len(arg.bytes) = Mint_LEN
        /\ arg.bytes[41] \in {0, 1}) =>
          /\ ret.tag = "Ok"
          /\ ret.val.mint_authority = SubSeq(arg.bytes, 1, 32)
          /\ ret.val.supply = U64At(arg.bytes, 33)
          /\ ret.val.is_initialized = (arg.bytes[41] = 1)

\* C4: unpack_from_slice of a buffer that is not of canonical length fails
\* with InvalidAccountData, and every failure of unpack_from_slice is
\* InvalidAccountData and carries no record.
C4_RejectWrongLength ==
    /\ call = "Mint::unpack_from_slice" =>
          /\ Len(arg.bytes) # Mint_LEN => ret = Err("InvalidAccountData")
          /\ ret.tag \in {"Ok", "Err"}
          /\ ret.tag = "Err" => ret = Err("InvalidAccountData")
    /\ call = "Account::unpack_from_slice" =>
          /\ Len(arg.bytes) # Account_LEN => ret = Err("InvalidAccountData")
          /\ ret.tag \in {"Ok", "Err"}
          /\ ret.tag = "Err" => ret = Err("InvalidAccountData")

\* a 32-byte buffer, which passes the key's length test, was rejected
C4_Witness ==
    /\ call = "Mint::unpack_from_slice"
    /\ Len(arg.bytes) = PUBKEY_LEN
    /\ arg.bytes[9] = 1
    /\ ret = Err("InvalidAccountData")

\* C5: serializing BorshPubkey(k) emits the 32 bytes of k, deserializing
\* what was emitted gives BorshPubkey(k) back, and deserializing input that
\* is not 32 bytes long fails with the length-mismatch error.
C5_KeySymmetric ==
    /\ call = "BorshPubkey::serialize" => packed = arg.key
    /\ call = "BorshPubkey::serialize_deserialize" =>
          (ret.tag = "Ok" /\ ret.val = arg.key)
    /\ (call = "BorshPubkey::deserialize" /\ Len(arg.bytes) # PUBKEY_LEN) =>
          (ret.tag = "Err" /\ ret.err = "Bytes does not match Pubkey size")

\* C6: unpack of the empty buffer, and of tag 0 followed by fewer than 32
\* bytes, fails with InvalidInstruction.
C6_RejectUnderLength ==
    call = "unpack" =>
        /\ Len(arg.bytes) = 0 => ret = Err("InvalidInstruction")
        /\ (/\ Len(arg.bytes) >= 1
            /\ arg.bytes[1] = 0
            /\ Len(arg.bytes) - 1 < 32) => ret = Err("InvalidInstruction")

\* tag 0 followed by 31 bytes was rejected
C6_Witness ==
    /\ call = "unpack"
    /\ Len(arg.bytes) = 32
    /\ arg.bytes[1] = 0
    /\ ret = Err("InvalidInstruction")

\* C7: unpack of a buffer whose first byte is not the tag of any variant
\* fails with InvalidInstruction, whatever follows the tag.
C7_RejectUnknownTag ==
    (/\ call = "unpack"
     /\ Len(arg.bytes) >= 1
     /\ arg.bytes[1] \notin KnownTags) => ret = Err("InvalidInstruction")

\* tag 3 followed by a whole key was rejected
C7_Witness ==
    /\ call = "unpack"
    /\ Len(arg.bytes) = 1 + PUBKEY_LEN
    /\ arg.bytes[1] = 3
    /\ ret = Err("InvalidInstruction")

\* C8: pack(InitializeMint{K}) is the 33 bytes [0] ++ K, and unpack of
\* [0] ++ K ++ extra is InitializeMint{K} for extra of any length.
C8_InitializeMintWire ==
    /\ (call = "pack" /\ arg.ix.variant = "InitializeMint") =>
          /\ Len(packed) = 33
          /\ packed = <<0>> \o arg.ix.payload
    /\ (/\ call = "unpack"
        /\ Len(arg.bytes) >= 33
        /\ arg.bytes[1] = 0) =>
          /\ ret.tag = "Ok"
          /\ ret.val = InitializeMint(SubSeq(arg.bytes, 2, 33))

\* tag 0, a key that is not all zero and excess bytes decoded to the key
C8_Witness ==
    /\ call = "unpack"
    /\ Len(arg.bytes) > 33
    /\ arg.bytes[1] = 0
    /\ ret.tag = "Ok"
    /\ ret.val.variant = "InitializeMint"
    /\ ret.val.payload = IncKey

C10_BuilderMatchesDoc ==
    call \in {"initialize_mint", "mint", "transfer"} =>
        LET doc == DocAccounts(BuilderVariant(call))
            accounts == ret.val.accounts
        IN  /\ Len(accounts) = Len(doc)
            /\ \A i \in 1..Len(doc) :
                  /\ accounts[i].pubkey = RoleKey(arg, doc[i].role)
                  /\ accounts[i].is_writable = doc[i].is_writable
                  /\ accounts[i].is_signer = doc[i].is_signer

====
